---- MODULE Spec2Model ----
(***************************************************************************)
(* The N-Triples and Turtle parsers of rdf-rs as one state machine.  A     *)
(* parser pulls tokens from its lexer one call at a time; the model has    *)
(* one action per place of the code that calls the lexer, and the stream   *)
(* of lexer results is revealed as the parser asks for it.  Strings the    *)
(* code takes apart or concatenates (URIs, QName paths) are sequences of   *)
(* characters; the others are atoms.                                       *)
(***************************************************************************)
EXTENDS Naturals, Sequences, FiniteSets

VARIABLES parser,     \* which parser was constructed: "ntriples" or "turtle"
          input,      \* the lexer results produced so far, in order
          pos,        \* how many of them the parser has consumed
          pc,         \* the position of decode in its code
          graph,      \* decode's local `graph`
          subject,    \* the local `subject` of read_triple / read_triples
          predicate,  \* the bindings of `predicate` in scope in read_triple /
                      \* read_triples, the innermost last
          object,     \* the local `object` of read_triple
          triples,    \* the local `triples` of TurtleParser::read_triples
          returned    \* the value decode returned, once pc = "done"

vars == <<parser, input, pos, pc, graph, subject, predicate, object, triples, returned>>

\* ------------------------------------------------------------------ bounds

\* The longest stream of lexer results a run reads.
MaxTokens == 9

\* ------------------------------------------------------------------ values

None == <<>>
Some(v) == <<v>>

\* Uri::new: a URI value holding the given string.
UriNew(s) == [uri |-> s]

\* Uri::append_resource_path: the path is concatenated to the URI.
AppendResourcePath(u, path) == [uri |-> u.uri \o path]

\* str::replace(":", "/") on a sequence of characters.
RECURSIVE ReplaceColon(_)
ReplaceColon(path) ==
    IF path = <<>> THEN <<>>
    ELSE <<IF Head(path) = ":" THEN "/" ELSE Head(path)>> \o ReplaceColon(Tail(path))

\* The variants of Node.
UriNode(u) == [kind |-> "UriNode", uri |-> u]
BlankNode(id) == [kind |-> "BlankNode", id |-> id]
LiteralNode(literal, data_type, language) ==
    [kind |-> "LiteralNode", literal |-> literal, data_type |-> data_type,
     language |-> language]

\* Triple::new.
TripleNew(s, p, o) == [subject |-> s, predicate |-> p, object |-> o]

\* The variants of Token.
Comment(s) == [type |-> "Comment", text |-> s]
Literal(s) == [type |-> "Literal", literal |-> s]
LiteralWithUrlDatatype(s, d) ==
    [type |-> "LiteralWithUrlDatatype", literal |-> s, datatype |-> d]
LiteralWithQNameDatatype(s, p, q) ==
    [type |-> "LiteralWithQNameDatatype", literal |-> s, prefix |-> p, path |-> q]
LiteralWithLanguageSpecification(s, l) ==
    [type |-> "LiteralWithLanguageSpecification", literal |-> s, lang |-> l]
Uri(s) == [type |-> "Uri", uri |-> s]
BlankNodeToken(s) == [type |-> "BlankNode", id |-> s]
TripleDelimiter == [type |-> "TripleDelimiter"]
PrefixDirective(p, u) == [type |-> "PrefixDirective", prefix |-> p, uri |-> u]
BaseDirective(u) == [type |-> "BaseDirective", uri |-> u]
QName(p, q) == [type |-> "QName", prefix |-> p, path |-> q]
Prefix(p) == [type |-> "Prefix", prefix |-> p]
KeywordA == [type |-> "KeywordA"]
PredicateListDelimiter == [type |-> "PredicateListDelimiter"]
ObjectListDelimiter == [type |-> "ObjectListDelimiter"]
CollectionStart == [type |-> "CollectionStart"]
CollectionEnd == [type |-> "CollectionEnd"]
UnlabeledBlankNodeStart == [type |-> "UnlabeledBlankNodeStart"]
UnlabeledBlankNodeEnd == [type |-> "UnlabeledBlankNodeEnd"]
EndOfInput == [type |-> "EndOfInput"]

\* Result<Token>: what one lexer call yields.
Ok(t) == [ok |-> TRUE, token |-> t]
Err(e) == [ok |-> FALSE, error_type |-> e]

\* ------------------------------------------------------------------ the input

UriStrings == {<<"a">>, <<"b">>}
PrefixStrings == {"ex"}
NamespaceStrings == {<<"n", "/">>}
PathStrings == {<<"q">>, <<"p", ":", "q">>}

Tokens ==
    {Comment("c"), Literal("c"), LiteralWithUrlDatatype("c", <<"d">>),
     LiteralWithQNameDatatype("c", "ex", <<"t">>),
     LiteralWithLanguageSpecification("c", "en"), BlankNodeToken("x"),
     TripleDelimiter, KeywordA, PredicateListDelimiter, ObjectListDelimiter,
     CollectionStart, CollectionEnd, UnlabeledBlankNodeStart,
     UnlabeledBlankNodeEnd, EndOfInput}
    \cup {Uri(u) : u \in UriStrings}
    \cup {BaseDirective(u) : u \in {<<"a">>}}
    \cup {PrefixDirective(p, n) : p \in PrefixStrings, n \in NamespaceStrings}
    \cup {QName(p, q) : p \in PrefixStrings, q \in PathStrings}
    \cup {Prefix(p) : p \in PrefixStrings}

\* The error kinds a lexer reports.
LexerErrorTypes == {"EndOfInput", "InvalidToken", "InvalidReaderInput"}

LexerResults == {Ok(t) : t \in Tokens} \cup {Err(e) : e \in LexerErrorTypes}

\* A lexer result that reports the end of the input.
IsEnd(r) == IF r.ok THEN r.token = EndOfInput ELSE r.error_type = "EndOfInput"

\* ------------------------------------------------------------------ the lexer

\* The lexer holds a token in its lookahead buffer.
Buffered == pos < Len(input)

\* What the lexer may produce next: a stream is finite and ends with the end
\* of the input.
Producible == IF Len(input) + 1 >= MaxTokens THEN {r \in LexerResults : IsEnd(r)}
              ELSE LexerResults

\* RdfLexer::peek_next_token yields r: the buffered result, or a new one that
\* is kept in the buffer.  The position does not advance.
PeekNextToken(r) ==
    /\ IF Buffered THEN r = input[pos + 1] /\ input' = input
       ELSE r \in Producible /\ input' = Append(input, r)
    /\ pos' = pos

\* RdfLexer::get_next_token yields r and advances past it.
GetNextToken(r) ==
    /\ IF Buffered THEN r = input[pos + 1] /\ input' = input
       ELSE r \in Producible /\ input' = Append(input, r)
    /\ pos' = pos + 1

\* ------------------------------------------------------------------ the graph

\* Graph::new(None): no triples, no namespaces, no base URI.
GraphNew == [triples |-> <<>>,
             namespaces |-> [p \in PrefixStrings |-> None],
             base_uri |-> None]

\* Graph::add_triple.
AddTriple(g, t) == [g EXCEPT !.triples = Append(@, t)]

\* Graph::add_triples.
AddTriples(g, ts) == [g EXCEPT !.triples = @ \o ts]

\* Graph::set_base_uri.
SetBaseUri(g, u) == [g EXCEPT !.base_uri = Some(u)]

\* Graph::add_namespace(Namespace::new(prefix, uri)).
AddNamespace(g, prefix, u) == [g EXCEPT !.namespaces[prefix] = Some(u)]

\* Graph::get_namespace_uri_by_prefix: Ok(uri), or the undefined-prefix error.
GetNamespaceUriByPrefix(g, prefix) ==
    IF g.namespaces[prefix] = None THEN [ok |-> FALSE, error_type |-> "UndefinedPrefix"]
    ELSE [ok |-> TRUE, uri |-> g.namespaces[prefix][1]]

\* ------------------------------------------------------------------ decode's result

ReturnOk(g) == [tag |-> "Ok", graph |-> g]
ReturnErr(e) == [tag |-> "Err", error_type |-> e]
Running == [tag |-> "Running"]

\* decode returns v.
Return(v) == pc' = "done" /\ returned' = v

Init ==
    /\ parser \in {"ntriples", "turtle"}
    /\ input = <<>>
    /\ pos = 0
    /\ pc = "top"
    /\ graph = GraphNew
    /\ subject = None
    /\ predicate = None
    /\ object = None
    /\ triples = <<>>
    /\ returned = Running

\* ------------------------------------------------------------------ NTriplesParser

\* NTriplesSubjectOf taking a plain literal for a subject as well.
NTriplesSubjectOf_Literal(r) ==
    IF r.ok /\ r.token.type = "BlankNode" THEN [ok |-> TRUE, node |-> BlankNode(r.token.id)]
    ELSE IF r.ok /\ r.token.type = "Uri" THEN [ok |-> TRUE, node |-> UriNode(UriNew(r.token.uri))]
    ELSE IF r.ok /\ r.token.type = "Literal"
         THEN [ok |-> TRUE, node |-> LiteralNode(r.token.literal, None, None)]
    ELSE [ok |-> FALSE, error_type |-> "InvalidToken"]

\* NTriplesParser::read_subject on a lexer result: Ok(node) or Err(kind).
NTriplesSubjectOf(r) ==
    IF r.ok /\ r.token.type = "BlankNode" THEN [ok |-> TRUE, node |-> BlankNode(r.token.id)]
    ELSE IF r.ok /\ r.token.type = "Uri" THEN [ok |-> TRUE, node |-> UriNode(UriNew(r.token.uri))]
    ELSE [ok |-> FALSE, error_type |-> "InvalidToken"]

\* NTriplesPredicateOf taking a blank node for a predicate as well.
NTriplesPredicateOf_BlankNode(r) ==
    IF r.ok /\ r.token.type = "BlankNode" THEN [ok |-> TRUE, node |-> BlankNode(r.token.id)]
    ELSE IF r.ok /\ r.token.type = "Uri" THEN [ok |-> TRUE, node |-> UriNode(UriNew(r.token.uri))]
    ELSE [ok |-> FALSE, error_type |-> "InvalidToken"]

\* NTriplesParser::read_predicate on a lexer result.
NTriplesPredicateOf(r) ==
    IF r.ok /\ r.token.type = "Uri" THEN [ok |-> TRUE, node |-> UriNode(UriNew(r.token.uri))]
    ELSE [ok |-> FALSE, error_type |-> "InvalidToken"]

\* NTriplesParser::read_object on a lexer result; a lexer error is passed on.
NTriplesObjectOf(r) ==
    IF ~r.ok THEN [ok |-> FALSE, error_type |-> r.error_type]
    ELSE CASE r.token.type = "BlankNode" -> [ok |-> TRUE, node |-> BlankNode(r.token.id)]
           [] r.token.type = "Uri" -> [ok |-> TRUE, node |-> UriNode(UriNew(r.token.uri))]
           [] r.token.type = "LiteralWithLanguageSpecification" ->
                [ok |-> TRUE, node |-> LiteralNode(r.token.literal, None, Some(r.token.lang))]
           [] r.token.type = "LiteralWithUrlDatatype" ->
                [ok |-> TRUE,
                 node |-> LiteralNode(r.token.literal, Some(UriNew(r.token.datatype)), None)]
           [] r.token.type = "Literal" ->
                [ok |-> TRUE, node |-> LiteralNode(r.token.literal, None, None)]
           [] OTHER -> [ok |-> FALSE, error_type |-> "InvalidToken"]

\* The error arm of decode's match on read_triple's result: an end-of-input
\* error ends the decode with the graph, any other one becomes
\* InvalidReaderInput.
NTriplesDecodeErr(e) ==
    IF e = "EndOfInput" THEN Return(ReturnOk(graph))
    ELSE Return(ReturnErr("InvalidReaderInput"))

\* NTriplesDecode without the arm for comments.
NTriplesDecode_NoCommentArm ==
    /\ parser = "ntriples" /\ pc = "top"
    /\ \E r \in LexerResults :
         IF ~r.ok THEN
            /\ PeekNextToken(r)
            /\ Return(ReturnErr(r.error_type))
         ELSE IF r.token = EndOfInput THEN
            /\ PeekNextToken(r)
            /\ Return(ReturnOk(graph))
         ELSE
            /\ PeekNextToken(r)
            /\ pc' = "subject"
            /\ UNCHANGED returned
    /\ UNCHANGED <<parser, graph, subject, predicate, object, triples>>

\* One turn of decode's loop up to the call of read_triple.
NTriplesDecode ==
    /\ parser = "ntriples" /\ pc = "top"
    /\ \E r \in LexerResults :
         IF ~r.ok THEN
            /\ PeekNextToken(r)
            /\ Return(ReturnErr(r.error_type))
         ELSE IF r.token.type = "Comment" THEN
            /\ GetNextToken(r)
            /\ UNCHANGED <<pc, returned>>
         ELSE IF r.token = EndOfInput THEN
            /\ PeekNextToken(r)
            /\ Return(ReturnOk(graph))
         ELSE
            /\ PeekNextToken(r)
            /\ pc' = "subject"
            /\ UNCHANGED returned
    /\ UNCHANGED <<parser, graph, subject, predicate, object, triples>>

\* read_triple: let subject = self.read_subject()?
NTriplesReadSubject ==
    /\ parser = "ntriples" /\ pc = "subject"
    /\ \E r \in LexerResults :
         /\ GetNextToken(r)
         /\ LET s == NTriplesSubjectOf(r) IN
            IF s.ok THEN /\ subject' = Some(s.node)
                         /\ pc' = "predicate"
                         /\ UNCHANGED returned
            ELSE /\ NTriplesDecodeErr(s.error_type)
                 /\ UNCHANGED subject
    /\ UNCHANGED <<parser, graph, predicate, object, triples>>

\* read_triple: let predicate = self.read_predicate()?
NTriplesReadPredicate ==
    /\ parser = "ntriples" /\ pc = "predicate"
    /\ \E r \in LexerResults :
         /\ GetNextToken(r)
         /\ LET p == NTriplesPredicateOf(r) IN
            IF p.ok THEN /\ predicate' = Some(p.node)
                         /\ pc' = "object"
                         /\ UNCHANGED returned
            ELSE /\ NTriplesDecodeErr(p.error_type)
                 /\ UNCHANGED predicate
    /\ UNCHANGED <<parser, graph, subject, object, triples>>

\* read_triple: let object = self.read_object()?
NTriplesReadObject ==
    /\ parser = "ntriples" /\ pc = "object"
    /\ \E r \in LexerResults :
         /\ GetNextToken(r)
         /\ LET o == NTriplesObjectOf(r) IN
            IF o.ok THEN /\ object' = Some(o.node)
                         /\ pc' = "terminator"
                         /\ UNCHANGED returned
            ELSE /\ NTriplesDecodeErr(o.error_type)
                 /\ UNCHANGED object
    /\ UNCHANGED <<parser, graph, subject, predicate, triples>>

\* NTriplesReadDelimiter with the subject and the object given to Triple::new
\* in each other's place.
NTriplesReadDelimiter_Swapped ==
    /\ parser = "ntriples" /\ pc = "terminator"
    /\ \E r \in LexerResults :
         /\ GetNextToken(r)
         /\ IF r.ok /\ r.token = TripleDelimiter THEN
               /\ graph' = AddTriple(graph, TripleNew(object[1], predicate[1], subject[1]))
               /\ pc' = "top"
               /\ UNCHANGED returned
            ELSE /\ NTriplesDecodeErr("InvalidReaderInput")
                 /\ UNCHANGED graph
    /\ UNCHANGED <<parser, subject, predicate, object, triples>>

\* read_triple: the triple delimiter, then Triple::new, and decode's
\* graph.add_triple.
NTriplesReadDelimiter ==
    /\ parser = "ntriples" /\ pc = "terminator"
    /\ \E r \in LexerResults :
         /\ GetNextToken(r)
         /\ IF r.ok /\ r.token = TripleDelimiter THEN
               /\ graph' = AddTriple(graph, TripleNew(subject[1], predicate[1], object[1]))
               /\ pc' = "top"
               /\ UNCHANGED returned
            ELSE /\ NTriplesDecodeErr("InvalidReaderInput")
                 /\ UNCHANGED graph
    /\ UNCHANGED <<parser, subject, predicate, object, triples>>

\* ------------------------------------------------------------------ TurtleParser

\* TurtleQNameNode taking a prefix the table does not hold for an empty
\* namespace URI.
TurtleQNameNode_UnknownIsEmpty(g, prefix, path) ==
    LET ns == GetNamespaceUriByPrefix(g, prefix) IN
    [ok |-> TRUE,
     node |-> UriNode(AppendResourcePath(IF ns.ok THEN ns.uri ELSE UriNew(<<>>),
                                         ReplaceColon(path)))]

\* The URI node of a QName: the namespace URI of the prefix with the path
\* appended, every ":" of the path replaced by "/".  Fails with the error of
\* get_namespace_uri_by_prefix.
TurtleQNameNode(g, prefix, path) ==
    LET ns == GetNamespaceUriByPrefix(g, prefix) IN
    IF ns.ok THEN [ok |-> TRUE,
                   node |-> UriNode(AppendResourcePath(ns.uri, ReplaceColon(path)))]
    ELSE [ok |-> FALSE, error_type |-> ns.error_type]

\* TurtleParser::read_subject on a lexer result; a lexer error is passed on.
TurtleSubjectOf(g, r) ==
    IF ~r.ok THEN [ok |-> FALSE, error_type |-> r.error_type]
    ELSE CASE r.token.type = "BlankNode" -> [ok |-> TRUE, node |-> BlankNode(r.token.id)]
           [] r.token.type = "QName" -> TurtleQNameNode(g, r.token.prefix, r.token.path)
           [] r.token.type = "Uri" -> [ok |-> TRUE, node |-> UriNode(UriNew(r.token.uri))]
           [] OTHER -> [ok |-> FALSE, error_type |-> "InvalidToken"]

\* TurtlePredicateOf taking the keyword `a` for the predicate rdf:type.
TurtlePredicateOf_KeywordA(g, r) ==
    IF ~r.ok THEN [ok |-> FALSE, error_type |-> r.error_type]
    ELSE CASE r.token.type = "Uri" -> [ok |-> TRUE, node |-> UriNode(UriNew(r.token.uri))]
           [] r.token.type = "QName" -> TurtleQNameNode(g, r.token.prefix, r.token.path)
           [] r.token.type = "KeywordA" ->
                [ok |-> TRUE, node |-> UriNode(UriNew(<<"t", "y", "p", "e">>))]
           [] OTHER -> [ok |-> FALSE, error_type |-> "InvalidToken"]

\* The predicate of TurtleParser::read_predicate_with_object on a lexer
\* result; a lexer error is passed on.
TurtlePredicateOf(g, r) ==
    IF ~r.ok THEN [ok |-> FALSE, error_type |-> r.error_type]
    ELSE CASE r.token.type = "Uri" -> [ok |-> TRUE, node |-> UriNode(UriNew(r.token.uri))]
           [] r.token.type = "QName" -> TurtleQNameNode(g, r.token.prefix, r.token.path)
           [] OTHER -> [ok |-> FALSE, error_type |-> "InvalidToken"]

\* TurtleObjectOf taking a literal with a QName datatype, the datatype dropped.
TurtleObjectOf_QNameDatatype(g, r) ==
    IF ~r.ok THEN [ok |-> FALSE, error_type |-> r.error_type]
    ELSE CASE r.token.type = "BlankNode" -> [ok |-> TRUE, node |-> BlankNode(r.token.id)]
           [] r.token.type = "Uri" -> [ok |-> TRUE, node |-> UriNode(UriNew(r.token.uri))]
           [] r.token.type = "QName" -> TurtleQNameNode(g, r.token.prefix, r.token.path)
           [] r.token.type = "LiteralWithLanguageSpecification" ->
                [ok |-> TRUE, node |-> LiteralNode(r.token.literal, None, Some(r.token.lang))]
           [] r.token.type = "LiteralWithUrlDatatype" ->
                [ok |-> TRUE,
                 node |-> LiteralNode(r.token.literal, Some(UriNew(r.token.datatype)), None)]
           [] r.token.type = "Literal" ->
                [ok |-> TRUE, node |-> LiteralNode(r.token.literal, None, None)]
           [] r.token.type = "LiteralWithQNameDatatype" ->
                [ok |-> TRUE, node |-> LiteralNode(r.token.literal, None, None)]
           [] OTHER -> [ok |-> FALSE, error_type |-> "InvalidToken"]

\* TurtleObjectOf giving the language tag of a literal as its datatype too.
TurtleObjectOf_LanguageAsDatatype(g, r) ==
    IF ~r.ok THEN [ok |-> FALSE, error_type |-> r.error_type]
    ELSE CASE r.token.type = "BlankNode" -> [ok |-> TRUE, node |-> BlankNode(r.token.id)]
           [] r.token.type = "Uri" -> [ok |-> TRUE, node |-> UriNode(UriNew(r.token.uri))]
           [] r.token.type = "QName" -> TurtleQNameNode(g, r.token.prefix, r.token.path)
           [] r.token.type = "LiteralWithLanguageSpecification" ->
                [ok |-> TRUE,
                 node |-> LiteralNode(r.token.literal, Some(UriNew(<<r.token.lang>>)),
                                      Some(r.token.lang))]
           [] r.token.type = "LiteralWithUrlDatatype" ->
                [ok |-> TRUE,
                 node |-> LiteralNode(r.token.literal, Some(UriNew(r.token.datatype)), None)]
           [] r.token.type = "Literal" ->
                [ok |-> TRUE, node |-> LiteralNode(r.token.literal, None, None)]
           [] OTHER -> [ok |-> FALSE, error_type |-> "InvalidToken"]

\* TurtleParser::read_object on a lexer result; a lexer error is passed on.
TurtleObjectOf(g, r) ==
    IF ~r.ok THEN [ok |-> FALSE, error_type |-> r.error_type]
    ELSE CASE r.token.type = "BlankNode" -> [ok |-> TRUE, node |-> BlankNode(r.token.id)]
           [] r.token.type = "Uri" -> [ok |-> TRUE, node |-> UriNode(UriNew(r.token.uri))]
           [] r.token.type = "QName" -> TurtleQNameNode(g, r.token.prefix, r.token.path)
           [] r.token.type = "LiteralWithLanguageSpecification" ->
                [ok |-> TRUE, node |-> LiteralNode(r.token.literal, None, Some(r.token.lang))]
           [] r.token.type = "LiteralWithUrlDatatype" ->
                [ok |-> TRUE,
                 node |-> LiteralNode(r.token.literal, Some(UriNew(r.token.datatype)), None)]
           [] r.token.type = "Literal" ->
                [ok |-> TRUE, node |-> LiteralNode(r.token.literal, None, None)]
           [] OTHER -> [ok |-> FALSE, error_type |-> "InvalidToken"]

\* The error arm of decode's match on the peeked result.
TurtleDecodeErr(e) ==
    IF e = "EndOfInput" THEN Return(ReturnOk(graph))
    ELSE Return(ReturnErr("InvalidReaderInput"))

\* TurtleDecode reporting a token that opens no statement like a lexer error.
TurtleDecode_OtherIsReaderInput ==
    /\ parser = "turtle" /\ pc = "top"
    /\ \E r \in LexerResults :
         IF ~r.ok THEN
            /\ PeekNextToken(r)
            /\ TurtleDecodeErr(r.error_type)
            /\ UNCHANGED <<graph, triples>>
         ELSE IF r.token.type = "Comment" THEN
            /\ GetNextToken(r)
            /\ UNCHANGED <<pc, returned, graph, triples>>
         ELSE IF r.token = EndOfInput THEN
            /\ PeekNextToken(r)
            /\ Return(ReturnOk(graph))
            /\ UNCHANGED <<graph, triples>>
         ELSE IF r.token.type \in {"BaseDirective", "PrefixDirective"} THEN
            /\ PeekNextToken(r)
            /\ pc' = "directive"
            /\ UNCHANGED <<returned, graph, triples>>
         ELSE IF r.token.type \in {"Uri", "BlankNode", "QName"} THEN
            /\ PeekNextToken(r)
            /\ pc' = "subject"
            /\ triples' = <<>>
            /\ UNCHANGED <<returned, graph>>
         ELSE
            /\ PeekNextToken(r)
            /\ Return(ReturnErr("InvalidReaderInput"))
            /\ UNCHANGED <<graph, triples>>
    /\ UNCHANGED <<parser, subject, predicate, object>>

\* decode's match on the peeked result, up to the body of a directive's arm
\* or the call of read_triples.
TurtleDecode ==
    /\ parser = "turtle" /\ pc = "top"
    /\ \E r \in LexerResults :
         IF ~r.ok THEN
            /\ PeekNextToken(r)
            /\ TurtleDecodeErr(r.error_type)
            /\ UNCHANGED <<graph, triples>>
         ELSE IF r.token.type = "Comment" THEN
            /\ GetNextToken(r)
            /\ UNCHANGED <<pc, returned, graph, triples>>
         ELSE IF r.token = EndOfInput THEN
            /\ PeekNextToken(r)
            /\ Return(ReturnOk(graph))
            /\ UNCHANGED <<graph, triples>>
         ELSE IF r.token.type \in {"BaseDirective", "PrefixDirective"} THEN
            /\ PeekNextToken(r)
            /\ pc' = "directive"
            /\ UNCHANGED <<returned, graph, triples>>
         ELSE IF r.token.type \in {"Uri", "BlankNode", "QName"} THEN
            /\ PeekNextToken(r)
            /\ pc' = "subject"
            /\ triples' = <<>>
            /\ UNCHANGED <<returned, graph>>
         ELSE
            /\ PeekNextToken(r)
            /\ Return(ReturnErr("InvalidToken"))
            /\ UNCHANGED <<graph, triples>>
    /\ UNCHANGED <<parser, subject, predicate, object>>

\* The arm of a peeked BaseDirective or PrefixDirective: the graph takes the
\* base URI or the namespace and the loop goes on.  The lexer is not asked to
\* advance, so the directive stays in its lookahead buffer.
TurtleDirective ==
    /\ parser = "turtle" /\ pc = "directive"
    /\ LET t == input[pos + 1].token IN
       graph' = IF t.type = "BaseDirective" THEN SetBaseUri(graph, UriNew(t.uri))
                ELSE AddNamespace(graph, t.prefix, UriNew(t.uri))
    /\ pc' = "top"
    /\ UNCHANGED <<parser, input, pos, subject, predicate, object, triples, returned>>

\* read_triples: let subject = try!(self.read_subject(&graph))
TurtleReadSubject ==
    /\ parser = "turtle" /\ pc = "subject"
    /\ \E r \in LexerResults :
         /\ GetNextToken(r)
         /\ LET s == TurtleSubjectOf(graph, r) IN
            IF s.ok THEN /\ subject' = Some(s.node)
                         /\ pc' = "predicate"
                         /\ UNCHANGED returned
            ELSE /\ Return(ReturnErr(s.error_type))
                 /\ UNCHANGED subject
    /\ UNCHANGED <<parser, graph, predicate, object, triples>>

\* read_predicate_with_object: the predicate.  The call that opens the
\* statement binds read_triples' `predicate`; the call in the arm of a
\* predicate list delimiter binds a `predicate` of that arm, which shadows
\* the first one until the arm ends.
TurtleReadPredicate ==
    /\ parser = "turtle" /\ pc = "predicate"
    /\ \E r \in LexerResults :
         /\ GetNextToken(r)
         /\ LET p == TurtlePredicateOf(graph, r) IN
            IF p.ok THEN /\ predicate' = IF triples = <<>> THEN Some(p.node)
                                         ELSE <<predicate[1], p.node>>
                         /\ pc' = "object"
                         /\ UNCHANGED returned
            ELSE /\ Return(ReturnErr(p.error_type))
                 /\ UNCHANGED predicate
    /\ UNCHANGED <<parser, graph, subject, object, triples>>

\* read_object, called by read_predicate_with_object or for an object list,
\* and read_triples' push of the new triple, made of the `predicate` in scope.
\* The arm ends with the push, and with it the arm's `predicate`.
TurtleReadObject ==
    /\ parser = "turtle" /\ pc = "object"
    /\ \E r \in LexerResults :
         /\ GetNextToken(r)
         /\ LET o == TurtleObjectOf(graph, r) IN
            IF o.ok THEN /\ triples' = Append(triples,
                                TripleNew(subject[1], predicate[Len(predicate)], o.node))
                         /\ predicate' = Some(predicate[1])
                         /\ pc' = "delimiter"
                         /\ UNCHANGED returned
            ELSE /\ Return(ReturnErr(o.error_type))
                 /\ UNCHANGED <<triples, predicate>>
    /\ UNCHANGED <<parser, graph, subject, object>>

\* TurtleReadTriples reading only an object after a predicate list delimiter.
TurtleReadTriples_PredicateListAsObjectList ==
    /\ parser = "turtle" /\ pc = "delimiter"
    /\ \E r \in LexerResults :
         /\ GetNextToken(r)
         /\ IF r.ok /\ r.token = TripleDelimiter THEN
               /\ graph' = AddTriples(graph, triples)
               /\ pc' = "top"
               /\ UNCHANGED returned
            ELSE IF r.ok /\ r.token \in {PredicateListDelimiter, ObjectListDelimiter} THEN
               /\ pc' = "object"
               /\ UNCHANGED <<returned, graph>>
            ELSE /\ Return(ReturnErr("InvalidReaderInput"))
                 /\ UNCHANGED graph
    /\ UNCHANGED <<parser, subject, predicate, object, triples>>

\* TurtleReadTriples adding only the last triple of the statement to the
\* graph.
TurtleReadTriples_LastTripleOnly ==
    /\ parser = "turtle" /\ pc = "delimiter"
    /\ \E r \in LexerResults :
         /\ GetNextToken(r)
         /\ IF r.ok /\ r.token = TripleDelimiter THEN
               /\ graph' = AddTriple(graph, triples[Len(triples)])
               /\ pc' = "top"
               /\ UNCHANGED returned
            ELSE IF r.ok /\ r.token = PredicateListDelimiter THEN
               /\ pc' = "predicate"
               /\ UNCHANGED <<returned, graph>>
            ELSE IF r.ok /\ r.token = ObjectListDelimiter THEN
               /\ pc' = "object"
               /\ UNCHANGED <<returned, graph>>
            ELSE /\ Return(ReturnErr("InvalidReaderInput"))
                 /\ UNCHANGED graph
    /\ UNCHANGED <<parser, subject, predicate, object, triples>>

\* One turn of read_triples' loop; at the triple delimiter read_triples
\* returns and decode adds the triples to the graph.
TurtleReadTriples ==
    /\ parser = "turtle" /\ pc = "delimiter"
    /\ \E r \in LexerResults :
         /\ GetNextToken(r)
         /\ IF r.ok /\ r.token = TripleDelimiter THEN
               /\ graph' = AddTriples(graph, triples)
               /\ pc' = "top"
               /\ UNCHANGED returned
            ELSE IF r.ok /\ r.token = PredicateListDelimiter THEN
               /\ pc' = "predicate"
               /\ UNCHANGED <<returned, graph>>
            ELSE IF r.ok /\ r.token = ObjectListDelimiter THEN
               /\ pc' = "object"
               /\ UNCHANGED <<returned, graph>>
            ELSE /\ Return(ReturnErr("InvalidReaderInput"))
                 /\ UNCHANGED graph
    /\ UNCHANGED <<parser, subject, predicate, object, triples>>

Next ==
    \/ NTriplesDecode
    \/ NTriplesReadSubject
    \/ NTriplesReadPredicate
    \/ NTriplesReadObject
    \/ NTriplesReadDelimiter
    \/ TurtleDecode
    \/ TurtleDirective
    \/ TurtleReadSubject
    \/ TurtleReadPredicate
    \/ TurtleReadObject
    \/ TurtleReadTriples

Spec == Init /\ [][Next]_vars

\* Every step of decode is eventually taken: decode is one sequential call
\* that nothing suspends.
FairSpec == Spec /\ WF_vars(Next)

\* ------------------------------------------------------------------ streams

\* The lexer results of a stream that are not comments.
RECURSIVE StripComments(_)
StripComments(seq) ==
    IF seq = <<>> THEN <<>>
    ELSE IF Head(seq).ok /\ Head(seq).token.type = "Comment" THEN StripComments(Tail(seq))
    ELSE <<Head(seq)>> \o StripComments(Tail(seq))

IsType(r, types) == r.ok /\ r.token.type \in types

LiteralTypes == {"Literal", "LiteralWithLanguageSpecification", "LiteralWithUrlDatatype"}

\* The node a token without a prefix stands for.
NodeOfToken(t) ==
    CASE t.type = "Uri" -> UriNode([uri |-> t.uri])
      [] t.type = "BlankNode" -> BlankNode(t.id)
      [] t.type = "Literal" -> LiteralNode(t.literal, None, None)
      [] t.type = "LiteralWithLanguageSpecification" -> LiteralNode(t.literal, None, <<t.lang>>)
      [] t.type = "LiteralWithUrlDatatype" -> LiteralNode(t.literal, <<[uri |-> t.datatype]>>, None)

\* The stream is the beginning of a well-formed N-Triples document: the
\* statements are subject, predicate, object and delimiter, comments stand
\* only between statements and the end of the input only after a statement.
NTriplesWellFormed(seq) ==
    LET st == StripComments(seq) IN
    /\ \A i \in 1..Len(seq) :
         IsType(seq[i], {"Comment"}) => Len(StripComments(SubSeq(seq, 1, i))) % 4 = 0
    /\ \A j \in 1..Len(st) :
         CASE j % 4 = 1 -> \/ IsType(st[j], {"Uri", "BlankNode"})
                           \/ j = Len(st) /\ st[j] = Ok(EndOfInput)
           [] j % 4 = 2 -> IsType(st[j], {"Uri"})
           [] j % 4 = 3 -> IsType(st[j], {"Uri", "BlankNode"} \cup LiteralTypes)
           [] OTHER -> IsType(st[j], {"TripleDelimiter"})

\* The triples of the statements of a well-formed N-Triples stream, in order.
NTriplesExpected(seq) ==
    LET st == StripComments(seq) IN
    [i \in 1..(Len(st) \div 4) |->
        [subject |-> NodeOfToken(st[4 * i - 3].token),
         predicate |-> NodeOfToken(st[4 * i - 2].token),
         object |-> NodeOfToken(st[4 * i - 1].token)]]

ObjectTypes == {"Uri", "BlankNode"} \cup LiteralTypes

\* The results of seq after its last statement boundary (a triple delimiter
\* or a comment): the tokens of the statement seq ends in.
LastStatement(seq) ==
    LET bs == {i \in 1..Len(seq) : IsType(seq[i], {"TripleDelimiter", "Comment"})}
        b == IF bs = {} THEN 0 ELSE CHOOSE i \in bs : \A k \in bs : k <= i
    IN SubSeq(seq, b + 1, Len(seq))

\* st begins a statement  subject p1 o1 ; p2 o2 ; ... ; pm om  without
\* prefixed names.
IsPredicateListPrefix(st) ==
    \A j \in 1..Len(st) :
        CASE j = 1 -> IsType(st[j], {"Uri", "BlankNode"})
          [] j % 3 = 2 -> IsType(st[j], {"Uri"})
          [] j % 3 = 0 -> IsType(st[j], ObjectTypes)
          [] OTHER -> st[j] = Ok(PredicateListDelimiter)

\* st is all of such a statement but its triple delimiter.
IsPredicateList(st) == Len(st) >= 3 /\ Len(st) % 3 = 0 /\ IsPredicateListPrefix(st)

PredicateListExpected(st) ==
    [j \in 1..(Len(st) \div 3) |->
        [subject |-> NodeOfToken(st[1].token),
         predicate |-> NodeOfToken(st[3 * j - 1].token),
         object |-> NodeOfToken(st[3 * j].token)]]

\* st begins a statement  subject predicate o1 , o2 , ... , on  without
\* prefixed names.
IsObjectListPrefix(st) ==
    \A j \in 1..Len(st) :
        CASE j = 1 -> IsType(st[j], {"Uri", "BlankNode"})
          [] j = 2 -> IsType(st[j], {"Uri"})
          [] j % 2 = 1 -> IsType(st[j], ObjectTypes)
          [] OTHER -> st[j] = Ok(ObjectListDelimiter)

\* st is all of such a statement but its triple delimiter.
IsObjectList(st) == Len(st) >= 3 /\ Len(st) % 2 = 1 /\ IsObjectListPrefix(st)

ObjectListExpected(st) ==
    [j \in 1..((Len(st) - 1) \div 2) |->
        [subject |-> NodeOfToken(st[1].token),
         predicate |-> NodeOfToken(st[2].token),
         object |-> NodeOfToken(st[2 * j + 1].token)]]

\* The statement the parser is in, when its last consumed result is taken
\* away: what it had consumed of the statement before that result.
StatementBeforeLast == LastStatement(SubSeq(input, 1, pos - 1))

\* The literal node the three literal tokens stand for.
LiteralNodeOfToken(t) ==
    CASE t.type = "Literal" ->
           [kind |-> "LiteralNode", literal |-> t.literal, data_type |-> None, language |-> None]
      [] t.type = "LiteralWithLanguageSpecification" ->
           [kind |-> "LiteralNode", literal |-> t.literal, data_type |-> None,
            language |-> <<t.lang>>]
      [] t.type = "LiteralWithUrlDatatype" ->
           [kind |-> "LiteralNode", literal |-> t.literal,
            data_type |-> <<[uri |-> t.datatype]>>, language |-> None]

\* ------------------------------------------------------------------ claims

\* C1: NTriplesParser::decode, on a stream of k well-formed statements with
\* comments only between statements and EndOfInput at the end, returns Ok
\* with exactly k triples, the i-th carrying the subject, predicate and object
\* of the i-th statement; it does not return before the end of such a stream.
C1_NTriplesDecodesWellFormed ==
    (parser = "ntriples" /\ pc = "done" /\ NTriplesWellFormed(input)) =>
        /\ input # <<>> /\ input[Len(input)] = Ok(EndOfInput)
        /\ returned.tag = "Ok"
        /\ returned.graph.triples = NTriplesExpected(input)

C1_Witness ==
    /\ parser = "ntriples" /\ pc = "done" /\ NTriplesWellFormed(input)
    /\ returned.tag = "Ok"
    /\ Len(returned.graph.triples) = 2
    /\ returned.graph.triples[1] # returned.graph.triples[2]

\* C2: decode of either parser terminates on every finite stream: in every
\* run it eventually returns.
C2_DecodeTerminates == <>(pc = "done")

\* C3: TurtleParser::decode, when a PrefixDirective(ex, ns) precedes a
\* statement that uses QName(ex, name), gets past the directive to the
\* statement, returns Ok, and the node of the name in the emitted triple is
\* the URI node of ns with name appended.
C3_DirectivePeeked == Buffered /\ IsType(input[pos + 1], {"PrefixDirective"})

C3_Resolved(d, r) ==
    IF r.token.type = "QName" THEN UriNode([uri |-> d.token.uri \o r.token.path])
    ELSE NodeOfToken(r.token)

C3_Stream ==
    /\ Len(input) = 6
    /\ IsType(input[1], {"PrefixDirective"})
    /\ IsType(input[2], {"Uri", "BlankNode", "QName"})
    /\ IsType(input[3], {"Uri", "QName"})
    /\ IsType(input[4], ObjectTypes \cup {"QName"})
    /\ \E i \in 2..4 : IsType(input[i], {"QName"})
    /\ \A i \in 2..4 : IsType(input[i], {"QName"}) => input[i].token.prefix = input[1].token.prefix
    /\ input[5] = Ok(TripleDelimiter)
    /\ input[6] = Ok(EndOfInput)

C3_PrefixedNameResolved ==
    /\ (parser = "turtle" /\ C3_DirectivePeeked) ~> ~C3_DirectivePeeked
    /\ []((parser = "turtle" /\ pc = "done" /\ C3_Stream) =>
            /\ returned.tag = "Ok"
            /\ returned.graph.triples =
                 <<[subject |-> C3_Resolved(input[1], input[2]),
                    predicate |-> C3_Resolved(input[1], input[3]),
                    object |-> C3_Resolved(input[1], input[4])]>>)

\* C4: TurtleParser::decode, reading as subject, predicate or object a QName
\* whose prefix the graph's namespace table does not hold, returns the error
\* of get_namespace_uri_by_prefix, which carries no graph, whatever was
\* decoded before.
C4_QNameRead ==
    /\ parser = "turtle" /\ pc \in {"subject", "predicate", "object"}
    /\ pos' = pos + 1
    /\ IsType(input'[pos'], {"QName"})
    /\ graph.namespaces[input'[pos'].token.prefix] = None

C4_UndefinedPrefixAborts ==
    [][C4_QNameRead =>
        /\ pc' = "done"
        /\ returned'.tag = "Err"
        /\ returned'.error_type = "UndefinedPrefix"
        /\ "graph" \notin DOMAIN returned']_vars

C4_Witness ==
    /\ parser = "turtle" /\ pc = "done"
    /\ pos >= 5 /\ IsType(input[pos], {"QName"})
    /\ Len(graph.triples) >= 1
    /\ returned.tag = "Err" /\ returned.error_type = "UndefinedPrefix"

\* C5: TurtleParser::decode reads a statement subject p1 o1 ; ... ; pm om
\* without returning before its end, and at the triple delimiter that closes
\* it adds exactly the m triples (subject, pj, oj) to the graph, in order.
C5_PredicateListTriples ==
    [][(parser = "turtle" /\ pos' = pos + 1) =>
        /\ (/\ LastStatement(SubSeq(input', 1, pos')) # <<>>
            /\ IsPredicateListPrefix(LastStatement(SubSeq(input', 1, pos')))) => pc' # "done"
        /\ (/\ input'[pos'] = Ok(TripleDelimiter)
            /\ IsPredicateList(LastStatement(SubSeq(input', 1, pos)))) =>
           /\ pc' # "done"
           /\ graph'.triples =
                 graph.triples \o PredicateListExpected(LastStatement(SubSeq(input', 1, pos)))]_vars

C5_Witness ==
    /\ parser = "turtle" /\ pc = "top" /\ pos >= 7
    /\ input[pos] = Ok(TripleDelimiter)
    /\ IsPredicateList(StatementBeforeLast)
    /\ Len(StatementBeforeLast) = 6
    /\ Len(graph.triples) = 2
    /\ graph.triples[1].subject = graph.triples[2].subject
    /\ graph.triples[1].predicate # graph.triples[2].predicate

\* C6: TurtleParser::decode reads a statement subject predicate o1 , ... , on
\* without returning before its end, and at the triple delimiter that closes
\* it adds exactly the n triples (subject, predicate, oj) to the graph, in
\* order.
C6_ObjectListTriples ==
    [][(parser = "turtle" /\ pos' = pos + 1) =>
        /\ (/\ LastStatement(SubSeq(input', 1, pos')) # <<>>
            /\ IsObjectListPrefix(LastStatement(SubSeq(input', 1, pos')))) => pc' # "done"
        /\ (/\ input'[pos'] = Ok(TripleDelimiter)
            /\ IsObjectList(LastStatement(SubSeq(input', 1, pos)))) =>
           /\ pc' # "done"
           /\ graph'.triples =
                 graph.triples \o ObjectListExpected(LastStatement(SubSeq(input', 1, pos)))]_vars

C6_Witness ==
    /\ parser = "turtle" /\ pc = "top" /\ pos >= 8
    /\ input[pos] = Ok(TripleDelimiter)
    /\ IsObjectList(StatementBeforeLast)
    /\ Len(StatementBeforeLast) = 7
    /\ Len(graph.triples) = 3
    /\ graph.triples[1].object # graph.triples[3].object
    /\ graph.triples[1].predicate = graph.triples[3].predicate

\* C7: NTriplesParser::decode returns Err, never Ok, when the lexer reports
\* the end of the input, as a token or as an error, after the subject of a
\* statement was consumed and before its triple delimiter was.
C7_EndInsideStatement ==
    /\ pos >= 2 /\ IsEnd(input[pos])
    /\ Len(StatementBeforeLast) \in 1..3
    /\ IsType(StatementBeforeLast[1], {"Uri", "BlankNode"})

C7_NTriplesTruncatedIsErr ==
    (parser = "ntriples" /\ pc = "done" /\ C7_EndInsideStatement) => returned.tag = "Err"

\* C8: TurtleParser::decode returns Err of kind InvalidToken or
\* InvalidReaderInput, not end-of-input and not Ok, when the lexer reports the
\* end of the input, as a token or as an error, right after the subject of a
\* statement was consumed.
C8_EndAfterSubject ==
    /\ pos >= 2 /\ IsEnd(input[pos])
    /\ Len(StatementBeforeLast) = 1
    /\ IsType(StatementBeforeLast[1], {"Uri", "BlankNode", "QName"})

C8_TurtleTruncatedIsSyntaxError ==
    (parser = "turtle" /\ pc = "done" /\ C8_EndAfterSubject) =>
        /\ returned.tag = "Err"
        /\ returned.error_type \in {"InvalidToken", "InvalidReaderInput"}

\* C9: for both parsers a comment the lexer yields where a statement is
\* expected is consumed at once and changes neither the graph nor anything
\* else decode holds, and a stream of comments ended by EndOfInput decodes to
\* Ok with no triples.
C9_OnlyComments(seq) ==
    \A i \in 1..Len(seq) :
        \/ IsType(seq[i], {"Comment"})
        \/ i = Len(seq) /\ seq[i] = Ok(EndOfInput)

C9_CommentsDiscarded ==
    /\ [][(/\ pc = "top"
           /\ Len(input') = Len(input) + 1
           /\ IsType(input'[Len(input')], {"Comment"})) =>
          (/\ pos' = Len(input')
           /\ UNCHANGED <<pc, graph, subject, predicate, object, triples, returned>>)]_vars
    /\ []((pc = "done" /\ C9_OnlyComments(input)) =>
            /\ input # <<>> /\ input[Len(input)] = Ok(EndOfInput)
            /\ returned.tag = "Ok"
            /\ returned.graph.triples = <<>>)

C9_Witness ==
    /\ pc = "predicate"
    /\ Len(graph.triples) = 1
    /\ pos = 7
    /\ IsType(input[1], {"Comment"})
    /\ IsType(input[6], {"Comment"})

\* C10: for both parsers the object of a triple built from a literal token
\* carries the token's text, with no datatype and no language for Literal, the
\* tag as language and no datatype for LiteralWithLanguageSpecification, the
\* URI as datatype and no language for LiteralWithUrlDatatype; and no literal
\* node of a triple has both a datatype and a language.
C10_AllTriples == graph.triples \o triples

C10_LiteralObjects ==
    /\ (parser = "ntriples" /\ pc = "top" /\ pos >= 4 /\ input[pos] = Ok(TripleDelimiter)
        /\ IsType(input[pos - 1], LiteralTypes)) =>
          graph.triples[Len(graph.triples)].object = LiteralNodeOfToken(input[pos - 1].token)
    /\ (parser = "turtle" /\ pc = "delimiter" /\ IsType(input[pos], LiteralTypes)) =>
          triples[Len(triples)].object = LiteralNodeOfToken(input[pos].token)
    /\ \A i \in 1..Len(C10_AllTriples) :
          C10_AllTriples[i].object.kind = "LiteralNode" =>
             ~(C10_AllTriples[i].object.data_type # None
               /\ C10_AllTriples[i].object.language # None)

C10_Witness ==
    /\ pc = "done" /\ returned.tag = "Ok"
    /\ Len(graph.triples) = 2
    /\ graph.triples[1].object.kind = "LiteralNode"
    /\ graph.triples[1].object.language # None
    /\ graph.triples[2].object.kind = "LiteralNode"
    /\ graph.triples[2].object.data_type # None

\* C11: TurtleParser::read_triples gives the triple it emits for an object
\* list delimiter the statement's subject and the predicate most recently
\* read in the statement: the third triple of  subject p1 o1 ; p2 o2 , o3  is
\* (subject, p2, o3).
C11_Statement == LastStatement(SubSeq(input, 1, pos))

C11_MixedList ==
    /\ Len(C11_Statement) = 8
    /\ IsType(C11_Statement[1], {"Uri", "BlankNode"})
    /\ IsType(C11_Statement[2], {"Uri"})
    /\ IsType(C11_Statement[3], ObjectTypes)
    /\ C11_Statement[4] = Ok(PredicateListDelimiter)
    /\ IsType(C11_Statement[5], {"Uri"})
    /\ IsType(C11_Statement[6], ObjectTypes)
    /\ C11_Statement[7] = Ok(ObjectListDelimiter)
    /\ IsType(C11_Statement[8], ObjectTypes)

C11_ObjectListKeepsLastPredicate ==
    (parser = "turtle" /\ pc = "delimiter" /\ C11_MixedList) =>
        /\ Len(triples) = 3
        /\ triples[3] = [subject |-> NodeOfToken(C11_Statement[1].token),
                         predicate |-> NodeOfToken(C11_Statement[5].token),
                         object |-> NodeOfToken(C11_Statement[8].token)]

\* C12: for both parsers, when the lexer reports the end of the input as an
\* end-of-input error on the peek at the top of the loop, decode returns Ok
\* with the graph of the triples accumulated so far.
C12_EndErrorPeeked == Buffered /\ input[pos + 1] = Err("EndOfInput")

C12_EndErrorAtBoundaryIsOk ==
    (pc = "done" /\ C12_EndErrorPeeked) => returned = [tag |-> "Ok", graph |-> graph]

\* C13: for both parsers a lexer error of a kind other than end-of-input is
\* what decode returns: the returned error has the kind the lexer reported.
C13_LexerErrorUnchanged ==
    (pc = "done" /\ input # <<>> /\ ~input[Len(input)].ok
     /\ input[Len(input)].error_type # "EndOfInput") =>
        /\ returned.tag = "Err"
        /\ returned.error_type = input[Len(input)].error_type

\* C14: NTriplesParser::decode, consuming a token of the wrong kind at the
\* subject, predicate, object or terminator position, returns Err of kind
\* InvalidReaderInput with no graph, whatever was decoded before, and the
\* lexer is asked for nothing after that token.
C14_Expected(at) ==
    CASE at = "subject" -> {"Uri", "BlankNode"}
      [] at = "predicate" -> {"Uri"}
      [] at = "object" -> {"Uri", "BlankNode", "Literal", "LiteralWithLanguageSpecification",
                           "LiteralWithUrlDatatype"}
      [] at = "terminator" -> {"TripleDelimiter"}

C14_WrongTokenAborts ==
    /\ [][(/\ parser = "ntriples"
           /\ pc \in {"subject", "predicate", "object", "terminator"}
           /\ pos' = pos + 1
           /\ input'[pos'].ok
           /\ input'[pos'].token.type \notin C14_Expected(pc)) =>
          (/\ pc' = "done"
           /\ returned'.tag = "Err"
           /\ returned'.error_type = "InvalidReaderInput"
           /\ "graph" \notin DOMAIN returned'
           /\ Len(input') = pos')]_vars
    /\ [][pc = "done" => input' = input /\ pos' = pos]_vars

C14_Witness ==
    /\ parser = "ntriples" /\ pc = "done"
    /\ Len(graph.triples) = 1
    /\ pos = 7 /\ Len(input) = 7
    /\ input[7] = Ok(BlankNodeToken("x"))
    /\ returned = [tag |-> "Err", error_type |-> "InvalidReaderInput"]

\* C15: TurtleParser::decode, peeking the first token of a statement, starts
\* reading a group of triples when it is a Uri, BlankNode or QName, and
\* returns Err of kind InvalidToken without adding a triple when it is none of
\* these and no Comment, EndOfInput, BaseDirective or PrefixDirective.
C15_Handled == {"Comment", "EndOfInput", "BaseDirective", "PrefixDirective"}

C15_Subjects == {"Uri", "BlankNode", "QName"}

C15_TopLevelDispatch ==
    [][(/\ parser = "turtle" /\ pc = "top"
        /\ Len(input') = Len(input) + 1
        /\ input'[Len(input')].ok) =>
       /\ input'[Len(input')].token.type \in C15_Subjects =>
            /\ pc' = "subject" /\ pos' = pos /\ triples' = <<>>
            /\ graph' = graph /\ returned' = returned
       /\ input'[Len(input')].token.type \notin C15_Subjects \cup C15_Handled =>
            /\ pc' = "done"
            /\ returned' = [tag |-> "Err", error_type |-> "InvalidToken"]
            /\ graph' = graph]_vars

C15_Witness ==
    /\ parser = "turtle" /\ pc = "done"
    /\ Len(graph.triples) = 1
    /\ Buffered /\ input[pos + 1] = Ok(KeywordA)
    /\ pos >= 4 /\ input[pos] = Ok(TripleDelimiter)
    /\ returned = [tag |-> "Err", error_type |-> "InvalidToken"]

\* C16: for both parsers every triple, added to the graph or held by
\* read_triples, has a URI node or blank node as subject, a URI node as
\* predicate and a URI node, blank node or literal node as object.
C16_Triples == graph.triples \o triples

C16_WellTypedTriples ==
    \A i \in 1..Len(C16_Triples) :
        /\ C16_Triples[i].subject.kind \in {"UriNode", "BlankNode"}
        /\ C16_Triples[i].predicate.kind = "UriNode"
        /\ C16_Triples[i].object.kind \in {"UriNode", "BlankNode", "LiteralNode"}

C16_Witness ==
    /\ pc = "done" /\ returned.tag = "Ok"
    /\ Len(returned.graph.triples) = 2
    /\ returned.graph.triples[1].subject.kind = "BlankNode"
    /\ returned.graph.triples[1].object.kind = "LiteralNode"
    /\ returned.graph.triples[2].subject.kind = "UriNode"
    /\ returned.graph.triples[2].object.kind = "BlankNode"

\* C17: TurtleParser builds no triple that is not resolved: reading a QName
\* as subject, predicate or object either ends decode with an error or binds
\* the URI node of the namespace URI the table holds for the prefix, with the
\* path appended; and a LiteralWithQNameDatatype read as object ends decode
\* with an error and yields no triple.
C17_Read(types) ==
    /\ parser = "turtle" /\ pc \in {"subject", "predicate", "object"}
    /\ pos' = pos + 1
    /\ IsType(input'[pos'], types)

C17_NodeRead ==
    CASE pc = "subject" -> subject'[1]
      [] pc = "predicate" -> predicate'[Len(predicate')]
      [] pc = "object" -> triples'[Len(triples')].object

C17_TriplesResolved ==
    /\ [][C17_Read({"QName"}) =>
          \/ pc' = "done" /\ returned'.tag = "Err" /\ graph' = graph /\ triples' = triples
          \/ /\ graph.namespaces[input'[pos'].token.prefix] # None
             /\ C17_NodeRead =
                  [kind |-> "UriNode",
                   uri |-> [uri |-> graph.namespaces[input'[pos'].token.prefix][1].uri
                                      \o ReplaceColon(input'[pos'].token.path)]]]_vars
    /\ [][C17_Read({"LiteralWithQNameDatatype"}) =>
          /\ pc' = "done" /\ returned'.tag = "Err"
          /\ graph' = graph /\ triples' = triples]_vars

C17_Witness ==
    /\ parser = "turtle" /\ pc = "done"
    /\ pos = 7 /\ IsType(input[7], {"LiteralWithQNameDatatype"})
    /\ IsType(input[6], {"Uri"}) /\ IsType(input[5], {"Uri", "BlankNode"})
    /\ Len(graph.triples) = 1
    /\ returned.tag = "Err"

\* C18: TurtleParser does not take the keyword `a` for a predicate: reading
\* KeywordA where a predicate is expected, decode returns Err of kind
\* InvalidToken and the statement adds no triple to the graph.
C18_KeywordARejected ==
    [][(/\ parser = "turtle" /\ pc = "predicate"
        /\ pos' = pos + 1
        /\ input'[pos'] = Ok(KeywordA)) =>
       (/\ pc' = "done"
        /\ returned' = [tag |-> "Err", error_type |-> "InvalidToken"]
        /\ graph' = graph)]_vars

C18_Witness ==
    /\ parser = "turtle" /\ pc = "done"
    /\ pos = 2 /\ input[2] = Ok(KeywordA) /\ IsType(input[1], {"Uri"})
    /\ graph.triples = <<>>
    /\ returned = [tag |-> "Err", error_type |-> "InvalidToken"]

====
